---------------------------- MODULE Spec2Model ----------------------------
(***************************************************************************)
(* Model of the distributor report extraction engine of Distrix            *)
(* (src/simple_data_processor.py): the per-file strategy cascade of        *)
(* parse_distributor_files, its four strategies, get_distributor_name and  *)
(* the aggregation of the per-file tables.                                 *)
(*                                                                         *)
(* A cell of a DataFrame is the text str() gives for it, or NaN.  Text is  *)
(* a string and is processed character by character (strip, lower,         *)
(* substring tests, float parsing) as the Python code does.                *)
(***************************************************************************)
EXTENDS Integers, Sequences, FiniteSets, TLC

(***************************************************************************)
(* Python string primitives                                                *)
(***************************************************************************)
Upper == "ABCDEFGHIJKLMNOPQRSTUVWXYZ"
Lowers == "abcdefghijklmnopqrstuvwxyz"
Digits == "0123456789"

\* s[i] as a one-character string
Ch(s, i) == SubSeq(s, i, i)

\* p in s
Contains(s, p) ==
    \E i \in 1..(Len(s) - Len(p) + 1) : SubSeq(s, i, i + Len(p) - 1) = p

\* s.startswith(p) / s.endswith(p)
StartsWith(s, p) == Len(s) >= Len(p) /\ SubSeq(s, 1, Len(p)) = p
EndsWith(s, p) == Len(s) >= Len(p) /\ SubSeq(s, Len(s) - Len(p) + 1, Len(s)) = p

IsUpperCh(c) == Contains(Upper, c)
IsLowerCh(c) == Contains(Lowers, c)
IsDigitCh(c) == Contains(Digits, c)
IsAlnumCh(c) == IsUpperCh(c) \/ IsLowerCh(c) \/ IsDigitCh(c)

LowerCh(c) ==
    IF IsUpperCh(c)
    THEN LET k == CHOOSE k \in 1..Len(Upper) : Ch(Upper, k) = c IN Ch(Lowers, k)
    ELSE c

\* s.lower()
RECURSIVE Lower(_)
Lower(s) == IF Len(s) = 0 THEN "" ELSE LowerCh(Ch(s, 1)) \o Lower(SubSeq(s, 2, Len(s)))

\* s.strip(): leading and trailing blanks removed
RECURSIVE LStrip(_)
LStrip(s) == IF Len(s) > 0 /\ Ch(s, 1) = " " THEN LStrip(SubSeq(s, 2, Len(s))) ELSE s
RECURSIVE RStrip(_)
RStrip(s) == IF Len(s) > 0 /\ Ch(s, Len(s)) = " " THEN RStrip(SubSeq(s, 1, Len(s) - 1)) ELSE s
Strip(s) == RStrip(LStrip(s))

\* s.replace(c, '') for a one-character c
RECURSIVE Remove(_, _)
Remove(s, c) ==
    IF Len(s) = 0 THEN ""
    ELSE (IF Ch(s, 1) = c THEN "" ELSE Ch(s, 1)) \o Remove(SubSeq(s, 2, Len(s)), c)

\* s.isdigit(): non-empty and digits only
IsDigit(s) == Len(s) > 0 /\ \A i \in 1..Len(s) : IsDigitCh(Ch(s, i))

\* the value of a string of digits
DigitVal(c) == (CHOOSE k \in 1..10 : Ch(Digits, k) = c) - 1
RECURSIVE NatVal(_)
NatVal(s) == IF Len(s) = 0 THEN 0 ELSE 10 * NatVal(SubSeq(s, 1, Len(s) - 1)) + DigitVal(Ch(s, Len(s)))

(***************************************************************************)
(* float(s).  A number is kept in tenths (0.5 is 5, 4 is 40); NoNum is the *)
(* ValueError of float().  The texts of the model have at most one         *)
(* fractional digit and no exponent; surrounding blanks are accepted as    *)
(* float() accepts them.                                                   *)
(***************************************************************************)
NoNum == -1000000

FloatUnsigned(t) ==
    IF IsDigit(t) THEN 10 * NatVal(t)
    ELSE IF \E d \in 1..Len(t) :
              /\ Ch(t, d) = "."
              /\ Len(t) - d <= 1
              /\ Len(t) > 1
              /\ (d = 1 \/ IsDigit(SubSeq(t, 1, d - 1)))
              /\ (d = Len(t) \/ IsDigit(SubSeq(t, d + 1, Len(t))))
         THEN LET d == CHOOSE d \in 1..Len(t) : Ch(t, d) = "."
              IN  10 * NatVal(SubSeq(t, 1, d - 1)) + NatVal(SubSeq(t, d + 1, Len(t)))
         ELSE NoNum

Float(s) ==
    LET t == Strip(s) IN
    IF Len(t) > 0 /\ Ch(t, 1) = "-"
    THEN LET u == FloatUnsigned(SubSeq(t, 2, Len(t))) IN IF u = NoNum THEN NoNum ELSE 0 - u
    ELSE IF Len(t) > 0 /\ Ch(t, 1) = "+" THEN FloatUnsigned(SubSeq(t, 2, Len(t)))
    ELSE FloatUnsigned(t)

\* int(x) of a float kept in tenths: truncation toward zero
IntOf(x) == IF x >= 0 THEN x \div 10 ELSE 0 - ((0 - x) \div 10)

(***************************************************************************)
(* get_distributor_name                                                    *)
(***************************************************************************)
\* os.path.basename: what follows the last '/'
RECURSIVE basename(_)
basename(p) ==
    IF Contains(p, "/")
    THEN basename(SubSeq(p, (CHOOSE i \in 1..Len(p) : Ch(p, i) = "/" /\
                                 \A j \in 1..(i - 1) : Ch(p, j) # "/") + 1, Len(p)))
    ELSE p

\* re.sub(r'^tmp[a-zA-Z0-9_]*', '', s)
RECURSIVE DropWordChars(_)
DropWordChars(s) ==
    IF Len(s) > 0 /\ (IsAlnumCh(Ch(s, 1)) \/ Ch(s, 1) = "_")
    THEN DropWordChars(SubSeq(s, 2, Len(s))) ELSE s
StripTmpPrefix(s) == IF StartsWith(s, "tmp") THEN DropWordChars(SubSeq(s, 4, Len(s))) ELSE s

\* os.path.splitext of a name without directory: the extension starts at the
\* last dot, unless only dots precede it
LastDot(s) == IF Contains(s, ".")
              THEN CHOOSE i \in 1..Len(s) : Ch(s, i) = "." /\ \A j \in (i + 1)..Len(s) : Ch(s, j) # "."
              ELSE 0
SplitAt(s) ==
    LET d == LastDot(s) IN
    IF d > 0 /\ \E j \in 1..(d - 1) : Ch(s, j) # "." THEN d ELSE Len(s) + 1
splitext_root(s) == SubSeq(s, 1, SplitAt(s) - 1)
splitext_ext(s) == SubSeq(s, SplitAt(s), Len(s))

\* re.search(r'(.+) from (.+)', s): the places where " from " stands with at
\* least one character before and after it; the greedy group 1 ends at the last
FromPlaces(s) == {k \in 2..(Len(s) - 6) : SubSeq(s, k, k + 5) = " from "}
FromGroup1(s) == LET k == CHOOSE k \in FromPlaces(s) : \A j \in FromPlaces(s) : j <= k
                 IN  SubSeq(s, 1, k - 1)

\* every character is kept
KeepLabelChars_every_character(s) == s

\* re.sub(r'[^a-zA-Z0-9 \-_]', '', s)
RECURSIVE KeepLabelChars(_)
KeepLabelChars(s) ==
    IF Len(s) = 0 THEN ""
    ELSE (IF IsAlnumCh(Ch(s, 1)) \/ Ch(s, 1) \in {" ", "-", "_"} THEN Ch(s, 1) ELSE "")
         \o KeepLabelChars(SubSeq(s, 2, Len(s)))

get_distributor_name(file_name) ==
    LET fn   == StripTmpPrefix(basename(file_name))
        root == splitext_root(fn)
        ext  == splitext_ext(fn)
        d1   == IF root = ""
                THEN (IF ext # "" THEN "Distributor-" \o SubSeq(ext, 2, Len(ext))
                                  ELSE "Unknown-Distributor")
                ELSE root
        d2   == IF FromPlaces(d1) # {} /\ Strip(FromGroup1(d1)) # ""
                THEN Strip(FromGroup1(d1)) ELSE d1
        d3   == Strip(KeepLabelChars(d2))
    IN  IF Len(d3) < 3
        THEN "Distributor-" \o (IF d3 # "" THEN d3 ELSE "Unknown")
        ELSE d3


(***************************************************************************)
(* Bounds of the model                                                     *)
(***************************************************************************)
\* rows of a grid
MaxRows == 3
\* files of a batch
MaxFiles == 3
\* rows under the header line of a sheet of customers and marked products
MaxMarkerRows == 5
\* files in the uploader (one list of more than the 5 allowed aside)
MaxUploads == 2
\* lines of a sheet above its first line of column names
MaxLead == 21
\* data lines of an order export
MaxOrders == 2

(***************************************************************************)
(* The cells, column names, sheet names and paths the grids are made of    *)
(***************************************************************************)
\* a blank cell (pd.isna)
NaN == "<NA>"

CellTexts ==
    { "Customer Name", "Product", "Qty", "SKU 1", "Ship City",
      "Acme Store", "Acme Store ", "Bob Shop", "Unknown", "Total",
      "Widget * Blue", "Widget", "Gadget * Red", "Unknown Product", "1001",
      "4", "0.5", "1,200", "12", "Springfield", "IL", "Widget Pro * Blue",
      "Customer", "Retailer", "$48", "Item" }

ColsTitle  == << "Sales Report", "Unnamed: 1", "Unnamed: 2" >>
ColsHeader == << "Customer Name", "Product", "Qty" >>
ColsFaire  == << "Retailer Name", "Order Number", "Order Total" >>
ColsNoProd == << "Customer Name", "Units", "Ship City" >>
\* the header line of a retailer CSV with its ship-to columns
ColsRetailer == << "Retailer Name", "Ship City", "Ship State", "SKU Description", "Qty" >>
\* the header lines of an order export with and without an Order Total column
ColsOrders == << "Retailer Name", "Order Number", "Units", "Order Total" >>
ColsUnits == << "Customer Name", "Product", "Units", "Cases" >>
ColumnSets == { ColsTitle, ColsHeader, ColsFaire, ColsNoProd, ColsRetailer, ColsOrders, ColsUnits }
ColumnTexts == UNION { {c[i] : i \in 1..Len(c)} : c \in ColumnSets }

SheetNames == { "CSV", "Sheet1", "BY CUSTOMER BY SKU" }

RowSet ==
    { << "Customer Name", "Product", "Qty" >>,
      << "Customer Name", "SKU 1", "Ship City" >>,
      << "Acme Store", "Widget * Blue", "4" >>,
      << "Acme Store ", "Widget", "0.5" >>,
      << "Unknown", "Gadget * Red", NaN >>,
      << "Bob Shop", "Unknown Product", "1,200" >>,
      << "Total", NaN, "12" >>,
      << NaN, "Gadget * Red", "Springfield" >>,
      << "Bob Shop", "1001", "Springfield" >> }

\* the data line of the retailer CSV
RetailerRow == << "Acme Store", "Springfield", "IL", "Widget Pro * Blue", "4" >>

\* rows of a sheet that names its customers and its marked products on
\* different lines
MarkerRows ==
    { << "Acme Store", NaN, NaN >>,
      << "Bob Shop", NaN, NaN >>,
      << "Unknown", NaN, NaN >>,
      << NaN, "Gadget * Red", NaN >> }

\* a line without any cell
BlankRow == << NaN, NaN, NaN >>
\* a line that names two columns of customers and is no line of column names
\* for find_header_row, and a line with a cell in each of them
PartiesRow == << "Customer", "Retailer", NaN >>
PairRow == << "Acme Store", "Bob Shop", "Gadget * Red" >>
\* a line of column names without a column of customers
ItemsRow == << "Item", "Product", "Qty" >>

\* the data lines of an order export: a customer, then an order number or a
\* product or nothing, then a count or a product or nothing, then an amount or
\* a count or a word or nothing
OrderRows ==
    { << "Acme Store", b, c, d >> :
        b \in { "1001", "Widget * Blue", NaN },
        c \in { "12", "0.5", "1,200", "Gadget * Red", NaN },
        d \in { "$48", "4", "Total", NaN } }

AllRows == RowSet \cup MarkerRows \cup OrderRows \cup { RetailerRow, BlankRow, PartiesRow, PairRow, ItemsRow }

\* the substrings the code looks for
Needles ==
    { "customer", "name", "retailer", "product", "description", "sku", "item",
      "quantity", "qty", "city", "ship", "state", "total", "---", "sum", "*",
      "hotpot", "mer/item", "BY CUSTOMER BY SKU" }

(***************************************************************************)
(* The string primitives, tabulated over the texts of the model            *)
(***************************************************************************)
Texts0 == CellTexts \cup ColumnTexts \cup SheetNames
Texts1 == Texts0 \cup { Strip(s) : s \in Texts0 }
Texts  == Texts1 \cup { Lower(s) : s \in Texts1 }

StripT == [s \in Texts |-> Strip(s)]
LowerT == [s \in Texts |-> Lower(s)]
HasT   == [s \in Texts |-> {p \in Needles : Contains(s, p)}]
LenT   == [s \in Texts |-> Len(s)]
\* s.replace('.', '').replace('-', '').isdigit()
NumberLikeT == [s \in Texts |-> IsDigit(Remove(Remove(s, "."), "-"))]
\* float(s.replace(',', ''))
FloatT == [s \in Texts |-> Float(Remove(s, ","))]
\* float(s.replace('$', '').replace(',', '').strip())
OrderTotalT == [s \in Texts |-> Float(Strip(Remove(Remove(s, "$"), ",")))]

strip(s) == StripT[s]
lower(s) == LowerT[s]
In(p, s) == p \in HasT[s]
len(s) == LenT[s]
number_like(s) == NumberLikeT[s]
notna(v) == v # NaN

\* the largest and the smallest element of a set of indexes, 0 (None) if empty
Last(S) == IF S = {} THEN 0 ELSE CHOOSE i \in S : \A j \in S : j <= i
First(S) == IF S = {} THEN 0 ELSE CHOOSE i \in S : \A j \in S : i <= j

RECURSIVE Flatten(_)
Flatten(ss) == IF Len(ss) = 0 THEN << >> ELSE Head(ss) \o Flatten(Tail(ss))

\* ' '.join(xs)
RECURSIVE Join(_)
Join(xs) == IF Len(xs) = 0 THEN ""
            ELSE IF Len(xs) = 1 THEN xs[1]
            ELSE xs[1] \o " " \o Join(Tail(xs))

\* the non-blank cells of a row, in order
NonBlank(row) == SelectSeq(row, notna)

(***************************************************************************)
(* A DataFrame df is [columns |-> the column labels, rows |-> the rows];   *)
(* a row is a sequence of cells, one per column.  Row and column indexes   *)
(* are Python's plus one, and 0 stands for None.                           *)
(*                                                                         *)
(* An extracted row (a dict of the code) is a record; City and State are   *)
(* NaN when the dict has no such key, as in the DataFrame built from it.   *)
(***************************************************************************)
NoneIdx == 0

\* the scan limits of the code
HeaderScanRows == 20
SkuScanRows == 15
CityScanRows == 10
CustomerScanRows == 5
NearbyRows == 3
SampleSize == 15
MinProductLen == 5
MinCustomerLen == 3
MaxQuantity == 1000

Min(a, b) == IF a <= b THEN a ELSE b
Max(a, b) == IF a >= b THEN a ELSE b

\* file names get_distributor_name is given: a temporary prefix before a stem
\* and before a "from" clause, a stem of word characters only, no stem at all,
\* short stems, a stem without label characters, no extension
FileNames ==
    { "tmpAB12Foo Report from Acme.xlsx", "tmpXYZreport.csv", "tmp123.xlsx",
      "Acme Q1.xlsx", "Sales from North.csv", "ab.csv", "a.xlsx", "tmp", "!!.csv",
      "Q1 orders.csv", "my-tmp_file.xlsx", "x from y.csv", " - .csv",
      "Acme & Sons (West).xlsx", "tmp.", " Acme .csv" }
\* the names tempfile.NamedTemporaryFile(suffix=...) can give: the directory,
\* "tmp", characters of [a-z0-9_], the suffix
TempStems == { "tmpq8xlw2", "tmpk3_b7", "tmp0a1b2c3d" }
TempPaths == { "/tmp/" \o st \o ext : st \in TempStems, ext \in { ".csv", ".xlsx" } }
PathSet == { "uploads/Acme Q1.xlsx" } \cup TempPaths \cup FileNames
DistributorT == [n \in { basename(q) : q \in PathSet } |-> get_distributor_name(n)]

row_data(customer, product, quantity, file_name, sheet_name, city, state) ==
    [ Customer    |-> customer,
      Product     |-> product,
      Quantity    |-> quantity,
      SourceFile  |-> file_name,
      Distributor |-> DistributorT[file_name],
      SheetName   |-> sheet_name,
      City        |-> city,
      State       |-> state ]

\* a city or state cell as the code keeps it: NaN unless the stripped text is
\* non-empty and none of the placeholder tokens
location(cell, placeholders) ==
    IF notna(cell) /\ strip(cell) # "" /\ lower(strip(cell)) \notin placeholders
    THEN strip(cell) ELSE NaN
CityTokens == { "city", "ship city", "n/a", "-" }
StateTokens == { "state", "ship state", "n/a", "-" }

(***************************************************************************)
(* find_header_row                                                         *)
(***************************************************************************)
\* ' '.join(str(val).lower().strip() for the non-blank cells of the row)
row_text(row) ==
    LET cells == NonBlank(row)
    IN  Join([k \in 1..Len(cells) |-> Strip(Lower(cells[k]))])
RowTextT == [r \in AllRows |-> {p \in Needles : Contains(row_text(r), p)}]

is_header_text(words) ==
    \/ ("customer" \in words /\ "name" \in words)
    \/ ("retailer" \in words /\ "name" \in words)
    \/ ("product" \in words /\ \E x \in {"name", "description", "sku", "item"} : x \in words)

\* the scan goes through every row of the sheet
find_header_row_every_row(df) ==
    First({ i \in 1..Len(df.rows) : is_header_text(RowTextT[df.rows[i]]) })

find_header_row(df) ==
    First({ i \in 1..Min(HeaderScanRows, Len(df.rows)) : is_header_text(RowTextT[df.rows[i]]) })

(***************************************************************************)
(* process_file_with_header                                                *)
(***************************************************************************)
\* the role the if/elif chain gives a header cell
header_role(header) ==
    LET h == lower(header) IN
    IF ~notna(header) THEN "none"
    ELSE IF In("customer", h) /\ In("name", h) THEN "customer"
    ELSE IF In("retailer", h) /\ In("name", h) THEN "customer"
    ELSE IF \E term \in {"product", "description", "item"} : In(term, h) THEN "product"
    ELSE IF In("quantity", h) \/ In("qty", h) THEN "qty"
    ELSE IF In("city", h) \/ (In("ship", h) /\ In("city", h)) THEN "city"
    ELSE IF In("state", h) \/ (In("ship", h) /\ In("state", h)) THEN "state"
    ELSE "none"

\* the last column the loop gives the role to
role_idx(headers, role) == Last({ i \in 1..Len(headers) : header_role(headers[i]) = role })

Separators == { "", "-", "--", "---", "----" }
CustomerEchoes == { "customer name", "retailer name", "total", "grand total", "" }
ProductEchoes == { "product", "description", "item", "total", "" }

\* quantity of the header-driven strategy: the cell parsed as a float once its
\* commas are removed, truncated by int() when positive, 1 otherwise
header_quantity(cell) ==
    IF notna(cell) /\ FloatT[cell] # NoNum /\ FloatT[cell] > 0
    THEN IntOf(FloatT[cell]) ELSE 1

\* a data row is kept with the defaults 'Unknown' and 'Unknown Product'
header_row_out_with_defaults(row, customer_idx, product_idx, qty_idx, city_idx, state_idx, file_name, sheet_name) ==
    LET values   == [k \in 1..Len(NonBlank(row)) |-> strip(NonBlank(row)[k])]
        has_cust == customer_idx # NoneIdx /\ notna(row[customer_idx])
        customer == IF has_cust THEN strip(row[customer_idx]) ELSE "Unknown"
        has_prod == product_idx # NoneIdx /\ notna(row[product_idx])
        product  == IF has_prod THEN strip(row[product_idx]) ELSE "Unknown Product"
        quantity == IF qty_idx # NoneIdx THEN header_quantity(row[qty_idx]) ELSE 1
    IN  IF Len(values) = 0 \/ \A k \in 1..Len(values) : values[k] \in Separators
        THEN << >>
        ELSE IF has_cust /\ lower(customer) \in CustomerEchoes THEN << >>
        ELSE IF has_prod /\ lower(product) \in ProductEchoes THEN << >>
        ELSE << row_data(customer, product, quantity, file_name, sheet_name,
                         IF city_idx # NoneIdx THEN location(row[city_idx], CityTokens) ELSE NaN,
                         IF state_idx # NoneIdx THEN location(row[state_idx], StateTokens) ELSE NaN) >>

\* the rows one data row contributes (none or one)
header_row_out(row, customer_idx, product_idx, qty_idx, city_idx, state_idx, file_name, sheet_name) ==
    LET values   == [k \in 1..Len(NonBlank(row)) |-> strip(NonBlank(row)[k])]
        has_cust == customer_idx # NoneIdx /\ notna(row[customer_idx])
        customer == IF has_cust THEN strip(row[customer_idx]) ELSE "Unknown"
        has_prod == product_idx # NoneIdx /\ notna(row[product_idx])
        product  == IF has_prod THEN strip(row[product_idx]) ELSE "Unknown Product"
        quantity == IF qty_idx # NoneIdx THEN header_quantity(row[qty_idx]) ELSE 1
    IN  IF Len(values) = 0 \/ \A k \in 1..Len(values) : values[k] \in Separators
        THEN << >>
        ELSE IF has_cust /\ lower(customer) \in CustomerEchoes THEN << >>
        ELSE IF has_prod /\ lower(product) \in ProductEchoes THEN << >>
        ELSE IF customer = "Unknown" \/ product = "Unknown Product" THEN << >>
        ELSE << row_data(customer, product, quantity, file_name, sheet_name,
                         IF city_idx # NoneIdx THEN location(row[city_idx], CityTokens) ELSE NaN,
                         IF state_idx # NoneIdx THEN location(row[state_idx], StateTokens) ELSE NaN) >>

process_file_with_header(df, header_row_idx, file_name, sheet_name) ==
    LET headers      == df.rows[header_row_idx]
        data         == SubSeq(df.rows, header_row_idx + 1, Len(df.rows))
        customer_idx == role_idx(headers, "customer")
        product_idx  == role_idx(headers, "product")
        qty_idx      == role_idx(headers, "qty")
        city_idx     == role_idx(headers, "city")
        state_idx    == role_idx(headers, "state")
    IN  IF customer_idx = NoneIdx /\ product_idx = NoneIdx THEN << >>
        ELSE Flatten([i \in 1..Len(data) |->
                 header_row_out(data[i], customer_idx, product_idx, qty_idx, city_idx,
                                state_idx, file_name, sheet_name)])

\* '*' in val_str and len(val_str) > 5
is_marked_product(val_str) == In("*", val_str) /\ len(val_str) > MinProductLen

(***************************************************************************)
(* process_customer_by_sku                                                 *)
(***************************************************************************)
\* ' '.join(str(v).lower() for the non-blank cells of the row)
row_str(row) ==
    LET cells == NonBlank(row)
    IN  Join([k \in 1..Len(cells) |-> Lower(cells[k])])
RowStrT == [r \in AllRows |-> {p \in Needles : Contains(row_str(r), p)}]

\* the role the if/elif chain of the customer-by-SKU strategy gives a cell of
\* the "Customer Name" row
sku_role(cell) ==
    LET val == lower(cell) IN
    IF ~notna(cell) THEN "none"
    ELSE IF In("customer", val) /\ In("name", val) THEN "customer"
    ELSE IF In("ship", val) /\ In("city", val) THEN "city"
    ELSE IF In("city", val) THEN "city"
    ELSE IF In("ship", val) /\ In("state", val) THEN "state"
    ELSE IF In("state", val) THEN "state"
    ELSE "none"

SkuEchoes == { "customer name", "total", "grand total", "" }

sku_row_out(row, customer_col_idx, city_col_idx, state_col_idx, file_name, sheet_name) ==
    LET customer == strip(row[customer_col_idx])
        city     == IF city_col_idx # NoneIdx THEN location(row[city_col_idx], CityTokens) ELSE NaN
        state    == IF state_col_idx # NoneIdx THEN location(row[state_col_idx], StateTokens) ELSE NaN
    IN  IF \A j \in 1..Len(row) : ~notna(row[j]) THEN << >>
        ELSE IF ~notna(row[customer_col_idx]) THEN << >>
        ELSE IF lower(customer) \in SkuEchoes \/ number_like(customer) THEN << >>
        ELSE Flatten([j \in 1..Len(row) |->
                 IF j # customer_col_idx /\ notna(row[j]) /\ is_marked_product(strip(row[j]))
                 THEN << row_data(customer, strip(row[j]), 1, file_name, sheet_name, city, state) >>
                 ELSE << >>])

process_customer_by_sku(df, file_name, sheet_name) ==
    LET customer_row_idx ==
            First({ i \in 1..Min(SkuScanRows, Len(df.rows)) :
                      "customer" \in RowStrT[df.rows[i]] /\ "name" \in RowStrT[df.rows[i]] })
        head             == df.rows[customer_row_idx]
        data_df          == SubSeq(df.rows, customer_row_idx + 1, Len(df.rows))
        customer_col_idx == Last({ i \in 1..Len(df.columns) : sku_role(head[i]) = "customer" })
        city_col_idx     == Last({ i \in 1..Len(df.columns) : sku_role(head[i]) = "city" })
        state_col_idx    == Last({ i \in 1..Len(df.columns) : sku_role(head[i]) = "state" })
    IN  IF customer_row_idx = NoneIdx THEN << >>
        ELSE IF customer_col_idx = NoneIdx THEN << >>
        ELSE Flatten([i \in 1..Len(data_df) |->
                 sku_row_out(data_df[i], customer_col_idx, city_col_idx, state_col_idx,
                             file_name, sheet_name)])

(***************************************************************************)
(* extract_asterisk_products                                               *)
(***************************************************************************)
\* the city (state) column: the last cell, in row-major order over the first
\* rows, that the if/elif gives to the city (state)
marker_role(cell) ==
    LET val == lower(cell) IN
    IF ~notna(cell) THEN "none"
    ELSE IF In("city", val) \/ (In("ship", val) /\ In("city", val)) THEN "city"
    ELSE IF In("state", val) \/ (In("ship", val) /\ In("state", val)) THEN "state"
    ELSE "none"

marker_col_idx(df, role) ==
    LET n    == Len(df.columns)
        hits == { (i - 1) * n + j : i \in 1..Min(CityScanRows, Len(df.rows)), j \in 1..n }
        last == Last({ h \in hits :
                         marker_role(df.rows[((h - 1) \div n) + 1][((h - 1) % n) + 1]) = role })
    IN  IF last = 0 THEN NoneIdx ELSE ((last - 1) % n) + 1

CustomerStopWords == { "total", "---", "customer", "product", "sum", "qty" }

\* the cell may be a customer name: long enough, not a number, no stop word
may_be_customer(cell) ==
    /\ notna(cell)
    /\ len(strip(cell)) > MinCustomerLen
    /\ ~number_like(strip(cell))
    /\ ~\E x \in CustomerStopWords : In(x, lower(strip(cell)))

\* the rows scanned for the column's name are the 5 rows directly above row i
is_likely_customer_rows_above(df, i, j) ==
    \E k \in Max(1, i - CustomerScanRows)..(i - 1) :
        /\ notna(df.rows[k][j])
        /\ (In("customer", lower(df.rows[k][j])) \/ In("retailer", lower(df.rows[k][j])))

\* a cell of column j in one of the rows range(min(5, i)) names customers
is_likely_customer(df, i, j) ==
    \E k \in 1..Min(CustomerScanRows, i - 1) :
        /\ notna(df.rows[k][j])
        /\ (In("customer", lower(df.rows[k][j])) \/ In("retailer", lower(df.rows[k][j])))

\* customer_by_row[i], NaN when the dict has no key i: the first cell of the row
\* that may be a customer and stands in a customer column
customer_by_row(df, i) ==
    LET j == First({ c \in 1..Len(df.columns) :
                       may_be_customer(df.rows[i][c]) /\ is_likely_customer(df, i, c) })
    IN  IF j = 0 THEN NaN ELSE strip(df.rows[i][j])

\* city_by_row[i] and state_by_row[i], NaN when the dict has no key i
place_by_row(df, i, col_idx, placeholders) ==
    IF customer_by_row(df, i) # NaN /\ col_idx # NoneIdx
    THEN location(df.rows[i][col_idx], placeholders) ELSE NaN

\* the customer of a marked product found in row i
marker_customer(cust, i) ==
    LET n    == Len(cust)
        own  == IF cust[i] # NaN THEN cust[i] ELSE "Unknown"
        offs == { o \in 1..NearbyRows :
                    (i - o >= 1 /\ cust[i - o] # NaN) \/ (i + o <= n /\ cust[i + o] # NaN) }
        o    == First(offs)
    IN  IF own # "Unknown" THEN own
        ELSE IF offs = {} THEN "Unknown"
        ELSE IF i - o >= 1 /\ cust[i - o] # NaN THEN cust[i - o]
        ELSE cust[i + o]

\* the city (state) of a marked product found in row i for the customer
marker_place(cust, place, i, customer) ==
    LET n    == Len(cust)
        ok(r) == r >= 1 /\ r <= n /\ place[r] # NaN /\ cust[r] # NaN /\ cust[r] = customer
        offs == { o \in 1..NearbyRows : ok(i - o) \/ ok(i + o) }
        o    == First(offs)
    IN  IF place[i] # NaN THEN place[i]
        ELSE IF offs = {} THEN NaN
        ELSE IF ok(i - o) THEN place[i - o]
        ELSE place[i + o]

extract_asterisk_products(df, file_name, sheet_name) ==
    LET n             == Len(df.rows)
        city_col_idx  == marker_col_idx(df, "city")
        state_col_idx == marker_col_idx(df, "state")
        cust          == [i \in 1..n |-> customer_by_row(df, i)]
        city          == [i \in 1..n |-> place_by_row(df, i, city_col_idx, CityTokens)]
        state         == [i \in 1..n |-> place_by_row(df, i, state_col_idx, StateTokens)]
        cell_out(i, j) ==
            LET customer == marker_customer(cust, i) IN
            IF notna(df.rows[i][j]) /\ is_marked_product(strip(df.rows[i][j]))
               /\ customer # "Unknown"
            THEN << row_data(customer, strip(df.rows[i][j]), 1, file_name, sheet_name,
                             marker_place(cust, city, i, customer),
                             marker_place(cust, state, i, customer)) >>
            ELSE << >>
    IN  Flatten([i \in 1..n |-> Flatten([j \in 1..Len(df.columns) |-> cell_out(i, j)])])

(***************************************************************************)
(* extract_basic                                                           *)
(***************************************************************************)
\* the role the if/elif chain gives a column label
basic_role(col) ==
    LET col_name == lower(col) IN
    IF (In("retailer", col_name) /\ In("name", col_name))
       \/ (In("customer", col_name) /\ In("name", col_name)) THEN "customer"
    ELSE IF In("city", col_name) \/ (In("ship", col_name) /\ In("city", col_name)) THEN "city"
    ELSE IF In("state", col_name) \/ (In("ship", col_name) /\ In("state", col_name)) THEN "state"
    ELSE "none"

basic_col(df, role) == Last({ c \in 1..Len(df.columns) : basic_role(df.columns[c]) = role })

\* df[col].dropna().astype(str).tolist()[:15]
RECURSIVE column_values(_, _)
column_values(rows, c) ==
    IF Len(rows) = 0 THEN << >>
    ELSE (IF notna(rows[1][c]) THEN << rows[1][c] >> ELSE << >>) \o column_values(Tail(rows), c)
sample_values(df, c) ==
    LET vals == column_values(df.rows, c) IN SubSeq(vals, 1, Min(SampleSize, Len(vals)))

\* the index of a column label, 0 when df.columns has no such label
col_of(df, label) == First({ c \in 1..Len(df.columns) : df.columns[c] = label })

ProductTerms == { "product", "item", "description", "sku", "mer/item" }

\* the product column: one with a '*' among its samples, else one named like a
\* product whose samples are not all numbers, else the Faire fallbacks
basic_product_col(df, customer_col) ==
    LET cols    == 1..Len(df.columns)
        starred == First({ c \in cols :
                             \E k \in 1..Len(sample_values(df, c)) : In("*", sample_values(df, c)[k]) })
        named   == First({ c \in cols :
                             /\ \E term \in ProductTerms : In(term, lower(df.columns[c]))
                             /\ ~\A k \in 1..Len(sample_values(df, c)) :
                                    sample_values(df, c)[k] # "" => number_like(sample_values(df, c)[k]) })
        other   == First({ c \in cols :
                             /\ c # customer_col
                             /\ \E k \in 1..Len(sample_values(df, c)) :
                                    /\ len(sample_values(df, c)[k]) > 3
                                    /\ ~number_like(sample_values(df, c)[k]) })
    IN  IF starred # NoneIdx THEN starred
        ELSE IF named # NoneIdx THEN named
        ELSE IF customer_col # NoneIdx /\ col_of(df, "Retailer Name") # 0
             THEN (IF col_of(df, "Order Number") # 0 THEN col_of(df, "Order Number") ELSE other)
        ELSE NoneIdx

default_product(sheet_name) ==
    IF In("hotpot", lower(sheet_name)) THEN "Hotpot Queen Product" ELSE "Distributor Product"

BasicCustomerEchoes == { "retailer name", "customer name", "total", "grand total", "" }
BasicProductEchoes == { "product", "item", "description", "mer/item", "total", "" }

\* the product of a row whose product cell is not blank: the cell, unless it is
\* a number, overridden by the first marked cell of another column
basic_product(df, row, product_col, sheet_name) ==
    LET product_val == strip(row[product_col])
        better      == First({ c \in 1..Len(df.columns) :
                                 c # product_col /\ notna(row[c]) /\ is_marked_product(strip(row[c])) })
    IN  IF better # 0 THEN strip(row[better])
        ELSE IF ~number_like(product_val) THEN product_val
        ELSE default_product(sheet_name)

\* quantity = max(1, int(float(order_total))), 1 when float() fails
order_total_quantity(cell) ==
    IF OrderTotalT[cell] = NoNum THEN 1 ELSE Max(1, IntOf(OrderTotalT[cell]))

\* the scan gives up after the first column that is neither the product nor the
\* customer column
scanned_quantity_first_column(df, row, product_col, customer_col) ==
    LET c == First({ k \in 1..Len(df.columns) :
                       k # product_col /\ k # customer_col /\ notna(row[k]) })
    IN  IF c # 0 /\ FloatT[strip(row[c])] # NoNum
           /\ 0 < FloatT[strip(row[c])] /\ FloatT[strip(row[c])] < 10 * MaxQuantity
        THEN IntOf(FloatT[strip(row[c])]) ELSE 1

\* the last column holding such a number gives the quantity
scanned_quantity_last_column(df, row, product_col, customer_col) ==
    LET c == Last({ k \in 1..Len(df.columns) :
                      /\ k # product_col /\ k # customer_col /\ notna(row[k])
                      /\ FloatT[strip(row[k])] # NoNum
                      /\ 0 < FloatT[strip(row[k])] /\ FloatT[strip(row[k])] < 10 * MaxQuantity })
    IN  IF c = 0 THEN 1 ELSE IntOf(FloatT[strip(row[c])])

\* the first column, other than the product and customer columns, holding a
\* number strictly between 0 and 1000; 1 when there is none
scanned_quantity(df, row, product_col, customer_col) ==
    LET c == First({ k \in 1..Len(df.columns) :
                       /\ k # product_col /\ k # customer_col /\ notna(row[k])
                       /\ FloatT[strip(row[k])] # NoNum
                       /\ 0 < FloatT[strip(row[k])] /\ FloatT[strip(row[k])] < 10 * MaxQuantity })
    IN  IF c = 0 THEN 1 ELSE IntOf(FloatT[strip(row[c])])

basic_quantity(df, row, product_col, customer_col) ==
    LET ot == col_of(df, "Order Total") IN
    IF ot # 0 /\ notna(row[ot]) THEN order_total_quantity(row[ot])
    ELSE scanned_quantity(df, row, product_col, customer_col)

basic_row_out(df, row, customer_col, product_col, city_col, state_col, file_name, sheet_name) ==
    LET has_cust == notna(row[customer_col])
        customer == IF has_cust THEN strip(row[customer_col]) ELSE "Unknown"
        has_prod == product_col # NoneIdx /\ notna(row[product_col])
        product  == IF has_prod THEN basic_product(df, row, product_col, sheet_name)
                    ELSE default_product(sheet_name)
    IN  IF has_cust /\ lower(customer) \in BasicCustomerEchoes THEN << >>
        ELSE IF has_prod /\ lower(strip(row[product_col])) \in BasicProductEchoes THEN << >>
        ELSE IF customer = "Unknown" THEN << >>
        ELSE << row_data(customer, product, basic_quantity(df, row, product_col, customer_col),
                         file_name, sheet_name,
                         IF city_col # NoneIdx THEN location(row[city_col], CityTokens) ELSE NaN,
                         IF state_col # NoneIdx THEN location(row[state_col], StateTokens) ELSE NaN) >>

\* duplicates dropped only when they follow each other
drop_adjacent_duplicates(rows) ==
    LET keep == { i \in 1..Len(rows) :
                    ~(i > 1 /\ rows[i - 1].Customer = rows[i].Customer
                            /\ rows[i - 1].Product = rows[i].Product) }
        F[i \in 0..Len(rows)] ==
            IF i = 0 THEN << >>
            ELSE IF i \in keep THEN Append(F[i - 1], rows[i]) ELSE F[i - 1]
    IN  F[Len(rows)]

\* df.drop_duplicates(subset=['Customer Name', 'Product']): the first row of
\* each (customer, product) pair is kept
drop_duplicates(rows) ==
    LET keep == { i \in 1..Len(rows) :
                    ~\E k \in 1..(i - 1) : rows[k].Customer = rows[i].Customer
                                           /\ rows[k].Product = rows[i].Product }
        F[i \in 0..Len(rows)] ==
            IF i = 0 THEN << >>
            ELSE IF i \in keep THEN Append(F[i - 1], rows[i]) ELSE F[i - 1]
    IN  F[Len(rows)]

\* the rows list of extract_basic before duplicates are dropped
basic_rows(df, file_name, sheet_name) ==
    LET customer_col == basic_col(df, "customer")
        city_col     == basic_col(df, "city")
        state_col    == basic_col(df, "state")
        product_col  == basic_product_col(df, customer_col)
    IN  IF customer_col = NoneIdx THEN << >>
        ELSE Flatten([i \in 1..Len(df.rows) |->
                 basic_row_out(df, df.rows[i], customer_col, product_col, city_col, state_col,
                               file_name, sheet_name)])

\* the rows list returned as it is
extract_basic_undeduplicated(df, file_name, sheet_name) ==
    basic_rows(df, file_name, sheet_name)

extract_basic(df, file_name, sheet_name) ==
    drop_duplicates(basic_rows(df, file_name, sheet_name))

(***************************************************************************)
(* The input files.  A file is what the loader can observe of it: its      *)
(* path, whether it can be read (decoded, opened as a workbook), the sheet *)
(* names of a workbook, the grid of its first sheet, and the strategy      *)
(* (1..4, 0 for none) inside which processing its content raises.          *)
(***************************************************************************)
CsvPath  == "/tmp/tmpk3_b7.csv"
XlsxPath == "/tmp/tmpq8xlw2.xlsx"
NamedPath == "uploads/Acme Q1.xlsx"

File(path, sheets, columns, rows, readable, raises) ==
    [ path |-> path, sheets |-> sheets, columns |-> columns, rows |-> rows,
      readable |-> readable, raises |-> raises ]

\* the grids of up to MaxRows rows
Grids == UNION { [1..n -> RowSet] : n \in 0..MaxRows }

\* one file of any grid, as a CSV or as the first sheet of a workbook
SingleFiles ==
    { File(CsvPath, << >>, c, g, TRUE, 0) : c \in {ColsHeader, ColsFaire, ColsNoProd}, g \in Grids }
    \cup { File(XlsxPath, sh, ColsTitle, g, TRUE, 0) :
             sh \in { << "Sheet1" >>, << "BY CUSTOMER BY SKU", "Sheet1" >> }, g \in Grids }
    \cup { File(XlsxPath, << "BY CUSTOMER BY SKU" >>, ColsHeader, g, TRUE, 0) : g \in Grids }
    \cup { File(CsvPath, << >>, ColsRetailer, g, TRUE, 0) :
             g \in { << >>, << RetailerRow >>, << RetailerRow, RetailerRow >> } }

HeaderRow == << "Customer Name", "Product", "Qty" >>
SkuRow    == << "Customer Name", "SKU 1", "Ship City" >>
AcmeRow   == << "Acme Store", "Widget * Blue", "4" >>
BobRow    == << "Bob Shop", "1001", "Springfield" >>

\* the files batches are made of: one the header-driven strategy reads, one the
\* customer-by-SKU strategy reads, one only the positional fallback reads, one
\* that cannot be decoded, one whose content makes a strategy raise
BatchFiles ==
    { File(NamedPath, << "Sheet1" >>, ColsTitle, << HeaderRow, AcmeRow >>, TRUE, 0),
      File(XlsxPath, << "BY CUSTOMER BY SKU" >>, ColsTitle, << SkuRow, AcmeRow, BobRow >>, TRUE, 0),
      File(CsvPath, << >>, ColsNoProd, << BobRow >>, TRUE, 0),
      File(CsvPath, << >>, ColsHeader, << AcmeRow >>, FALSE, 0),
      File(XlsxPath, << "Sheet1" >>, ColsTitle, << SkuRow, AcmeRow >>, TRUE, 3) }

Batches == UNION { [1..n -> BatchFiles] : n \in 0..MaxFiles }

\* the contents put behind each of the file names: a sheet the header-driven
\* strategy reads, a grid only the positional fallback reads, a grid no strategy
\* reads
NamedContents ==
    { [columns |-> ColsTitle, rows |-> << HeaderRow, AcmeRow >>],
      [columns |-> ColsNoProd, rows |-> << BobRow >>],
      [columns |-> ColsTitle, rows |-> << SkuRow >>] }
NamedFiles ==
    { File(n, IF EndsWith(Lower(n), ".csv") THEN << >> ELSE << "Sheet1" >>,
           c.columns, c.rows, TRUE, 0) : n \in FileNames, c \in NamedContents }

IsCsvT == [q \in PathSet |-> EndsWith(Lower(q), ".csv")]
BaseNameT == [q \in PathSet |-> basename(q)]

(***************************************************************************)
(* The wall clock: an instant is a count of months; datetime.now() never   *)
(* goes back.                                                              *)
(***************************************************************************)
\* the first instant of the model (December 2024) and how many months follow
ClockStart == 24299
ClockSpan == 1
\* the instants the clock can show during a call entered at instant t
Instants(t) == t..(t + ClockSpan)
month_of(t) == (t % 12) + 1
year_of(t) == t \div 12

\* str(n) for n >= 0
RECURSIVE ToStr(_)
ToStr(n) == IF n < 10 THEN Ch(Digits, n + 1) ELSE ToStr(n \div 10) \o Ch(Digits, (n % 10) + 1)

(***************************************************************************)
(* State                                                                   *)
(***************************************************************************)
VARIABLES
    files,       \* the files behind file_paths
    idx,         \* the file the for loop is at
    pc,          \* where the loop body is
    df,          \* the DataFrame of the current file
    sheet_name,  \* its sheet name
    all_data,    \* the tables kept so far
    origin,      \* for each table of all_data, the file it came from
    tried,       \* per file, the strategies called (the "Processing..."/"Using..." prints)
    won,         \* per file, the strategy whose table was kept, 0 if none
    failed,      \* the files whose processing raised (the "Failed"/"Error" prints)
    result,      \* the DataFrame returned
    raised,      \* an exception reached the caller
    now,         \* the last instant read from the clock
    run,         \* "first", or which second call of parse_distributor_files this is
    first,       \* the result of the first call
    uploaded_files,   \* app.py: the files in the uploader
    temp_file_paths,  \* app.py: the paths of the temporary files written so far
    disk,             \* the temporary files that exist
    session_state,    \* st.session_state
    app_pc            \* where the script run of app.py is; "none" without the app

app_vars == << uploaded_files, temp_file_paths, disk, session_state, app_pc >>

vars == << files, idx, pc, df, sheet_name, all_data, origin, tried, won, failed,
           result, raised, now, run, first, app_vars >>

NoDf == [columns |-> << >>, rows |-> << >>]
\* lines 15-20 of app.py: processed_data and current_quarter are None
NoSession == [ processed_data |-> [none |-> TRUE], quarters_available |-> << >>,
               current_quarter |-> "None" ]
EmptyFrame == [columns |-> {}, rows |-> << >>]

StartAt(fs, t) ==
    /\ files = fs
    /\ idx = 1
    /\ pc = "loop"
    /\ df = NoDf
    /\ sheet_name = ""
    /\ all_data = << >>
    /\ origin = << >>
    /\ tried = [i \in 1..Len(fs) |-> << >>]
    /\ won = [i \in 1..Len(fs) |-> 0]
    /\ failed = {}
    /\ result = EmptyFrame
    /\ raised = FALSE
    /\ now = t
    /\ run = "first"
    /\ first = EmptyFrame
    /\ uploaded_files = << >>
    /\ temp_file_paths = << >>
    /\ disk = {}
    /\ session_state = NoSession
    /\ app_pc = "none"

Start(fs) == StartAt(fs, ClockStart)

Init == \E fs \in { << f >> : f \in SingleFiles } \cup Batches : Start(fs)

file_name == BaseNameT[files[idx].path]

(***************************************************************************)
(* parse_distributor_files: the body of the for loop                       *)
(***************************************************************************)
\* continue: on to the next file
Continue ==
    /\ idx' = idx + 1
    /\ pc' = "loop"
    /\ df' = NoDf
    /\ sheet_name' = ""

\* the exception leaves the function
on_error_propagates ==
    /\ raised' = TRUE
    /\ pc' = "done"
    /\ failed' = failed \cup {idx}
    /\ UNCHANGED << idx, df, sheet_name, all_data, origin, won >>

\* the handlers of lines 75-81, 101-103 and 151-155: print and continue
on_error ==
    /\ Continue
    /\ failed' = failed \cup {idx}
    /\ UNCHANGED << all_data, origin, won, raised >>

\* the table is kept with the marker-based rows of the file merged into it
keep_merged(k, data_extract) ==
    /\ all_data' = Append(all_data,
                          IF k = 3 THEN data_extract
                          ELSE data_extract \o extract_asterisk_products(df, BaseNameT[files[idx].path], sheet_name))
    /\ origin' = Append(origin, idx)
    /\ won' = [won EXCEPT ![idx] = k]
    /\ Continue
    /\ UNCHANGED << failed, raised >>

\* all_data.append(data_extract); continue
keep(k, data_extract) ==
    /\ all_data' = Append(all_data, data_extract)
    /\ origin' = Append(origin, idx)
    /\ won' = [won EXCEPT ![idx] = k]
    /\ Continue
    /\ UNCHANGED << failed, raised >>

\* the strategy returned an empty frame: on to the next one
fall_through(next_pc) ==
    /\ pc' = next_pc
    /\ UNCHANGED << idx, df, sheet_name, all_data, origin, won, failed, raised >>

\* a strategy is called, and the next one too although its table was kept
attempt_without_continue(k, data_extract, next_pc) ==
    /\ tried' = [tried EXCEPT ![idx] = Append(@, k)]
    /\ IF files[idx].raises = k THEN on_error
       ELSE IF data_extract # << >> /\ next_pc # "loop"
       THEN /\ all_data' = Append(all_data, data_extract)
            /\ origin' = Append(origin, idx)
            /\ won' = [won EXCEPT ![idx] = k]
            /\ pc' = next_pc
            /\ UNCHANGED << idx, df, sheet_name, failed, raised >>
       ELSE IF data_extract # << >> THEN keep(k, data_extract)
       ELSE IF next_pc = "loop" THEN Continue /\ UNCHANGED << all_data, origin, won, failed, raised >>
       ELSE fall_through(next_pc)

\* a strategy is called: its table is kept when not empty
attempt(k, data_extract, next_pc) ==
    /\ tried' = [tried EXCEPT ![idx] = Append(@, k)]
    /\ IF files[idx].raises = k THEN on_error
       ELSE IF data_extract # << >> THEN keep(k, data_extract)
       ELSE IF next_pc = "loop" THEN Continue /\ UNCHANGED << all_data, origin, won, failed, raised >>
       ELSE fall_through(next_pc)

\* lines 65-111: read the file into df
LoadFile ==
    /\ pc = "loop"
    /\ idx <= Len(files)
    /\ LET f == files[idx] IN
       IF ~f.readable
       THEN on_error /\ UNCHANGED tried
       ELSE IF ~IsCsvT[f.path] /\ Len(f.sheets) = 0
       THEN Continue /\ UNCHANGED << all_data, origin, won, failed, raised, tried >>
       ELSE IF Len(f.rows) = 0 \/ Len(f.columns) = 0
       THEN Continue /\ UNCHANGED << all_data, origin, won, failed, raised, tried >>
       ELSE /\ df' = [columns |-> f.columns, rows |-> f.rows]
            /\ sheet_name' = IF IsCsvT[f.path] THEN "CSV" ELSE f.sheets[1]
            /\ pc' = "approach1"
            /\ UNCHANGED << idx, all_data, origin, won, failed, raised, tried >>
    /\ UNCHANGED << files, result, now, run, first, app_vars >>

\* lines 113-122: the header-driven strategy, when a header row is found
Approach1 ==
    /\ pc = "approach1"
    /\ LET header_row_idx == find_header_row(df) IN
       IF header_row_idx # NoneIdx
       THEN attempt(1, process_file_with_header(df, header_row_idx, file_name, sheet_name),
                    "approach2")
       ELSE fall_through("approach2") /\ UNCHANGED tried
    /\ UNCHANGED << files, result, now, run, first, app_vars >>

\* line 126
is_by_sku(d, sheet) ==
    \/ In("BY CUSTOMER BY SKU", sheet)
    \/ \E c \in 1..Len(d.columns) :
          In("customer", lower(d.columns[c])) /\ In("sku", lower(d.columns[c]))

\* lines 124-131: the customer-by-SKU strategy, when the layout asks for it
Approach2 ==
    /\ pc = "approach2"
    /\ IF is_by_sku(df, sheet_name)
       THEN attempt(2, process_customer_by_sku(df, file_name, sheet_name), "approach3")
       ELSE fall_through("approach3") /\ UNCHANGED tried
    /\ UNCHANGED << files, result, now, run, first, app_vars >>

\* lines 133-140: the marker-based strategy
Approach3 ==
    /\ pc = "approach3"
    /\ attempt(3, extract_asterisk_products(df, file_name, sheet_name), "approach4")
    /\ UNCHANGED << files, result, now, run, first, app_vars >>

\* lines 142-149: the positional fallback
Approach4 ==
    /\ pc = "approach4"
    /\ attempt(4, extract_basic(df, file_name, sheet_name), "loop")
    /\ UNCHANGED << files, result, now, run, first, app_vars >>

(***************************************************************************)
(* parse_distributor_files: after the loop                                 *)
(***************************************************************************)
BaseColumns == { "Customer Name", "Product", "Quantity", "Source File", "Distributor",
                 "Sheet Name" }

\* every frame is built with the City and State columns
frame_columns_with_places(rows) == BaseColumns \cup { "City", "State" }

\* the columns of pd.DataFrame(rows): City and State when some dict has the key
frame_columns(rows) ==
    BaseColumns
    \cup (IF \E k \in 1..Len(rows) : rows[k].City # NaN THEN {"City"} ELSE {})
    \cup (IF \E k \in 1..Len(rows) : rows[k].State # NaN THEN {"State"} ELSE {})

\* the quarter is counted from the month divided by 3
stamp_quarter_of_month_div_3(row, current_month, current_year) ==
    [ Customer |-> row.Customer, Product |-> row.Product, Quantity |-> row.Quantity,
      SourceFile |-> row.SourceFile, Distributor |-> row.Distributor,
      SheetName |-> row.SheetName, City |-> row.City, State |-> row.State,
      Month |-> current_month, Year |-> current_year,
      Quarter |-> "Q" \o ToStr((current_month \div 3) + 1) \o " " \o ToStr(current_year) ]

\* lines 165-172
stamp(row, current_month, current_year) ==
    [ Customer |-> row.Customer, Product |-> row.Product, Quantity |-> row.Quantity,
      SourceFile |-> row.SourceFile, Distributor |-> row.Distributor,
      SheetName |-> row.SheetName, City |-> row.City, State |-> row.State,
      Month |-> current_month, Year |-> current_year,
      Quarter |-> "Q" \o ToStr(((current_month - 1) \div 3) + 1) \o " " \o ToStr(current_year) ]

\* the tables are concatenated from the last one kept to the first
combined_df_last_first(tables, current_month, current_year) ==
    LET rows == Flatten([k \in 1..Len(tables) |-> tables[Len(tables) + 1 - k]]) IN
    [ columns |-> frame_columns(rows) \cup {"Month", "Year", "Quarter"},
      rows    |-> [k \in 1..Len(rows) |-> stamp(rows[k], current_month, current_year)] ]

\* pd.concat(all_data, ignore_index=True) and the Month, Year, Quarter columns
combined_df(tables, current_month, current_year) ==
    LET rows == Flatten(tables) IN
    [ columns |-> frame_columns(rows) \cup {"Month", "Year", "Quarter"},
      rows    |-> [k \in 1..Len(rows) |-> stamp(rows[k], current_month, current_year)] ]

\* the empty list goes on to pd.concat, which raises for it
ReturnEmpty_concat_raises ==
    /\ pc = "loop"
    /\ idx > Len(files)
    /\ all_data = << >>
    /\ raised' = TRUE
    /\ pc' = "done"
    /\ UNCHANGED << files, idx, df, sheet_name, all_data, origin, tried, won, failed,
                    result, now, run, first, app_vars >>

\* lines 157-160: nothing was extracted
ReturnEmpty ==
    /\ pc = "loop"
    /\ idx > Len(files)
    /\ all_data = << >>
    /\ result' = EmptyFrame
    /\ pc' = "done"
    /\ UNCHANGED << files, idx, df, sheet_name, all_data, origin, tried, won, failed,
                    raised, now, run, first, app_vars >>

\* lines 162-178: the month and then the year are read from the clock
Combine ==
    /\ pc = "loop"
    /\ idx > Len(files)
    /\ all_data # << >>
    /\ \E t1 \in Instants(now) : \E t2 \in Instants(now) :
          /\ t1 <= t2
          /\ now' = t2
          /\ result' = combined_df(all_data, month_of(t1), year_of(t2))
    /\ pc' = "done"
    /\ UNCHANGED << files, idx, df, sheet_name, all_data, origin, tried, won, failed,
                    raised, run, first, app_vars >>

Next == LoadFile \/ Approach1 \/ Approach2 \/ Approach3 \/ Approach4 \/ ReturnEmpty \/ Combine

Spec == Init /\ [][Next]_vars

(***************************************************************************)
(* A second call of parse_distributor_files, after the first has returned: *)
(* on the same files, or on the list without the files that failed.  What  *)
(* the first call returned is kept in first.                               *)
(***************************************************************************)
\* the function is entered with the all_data list of the call before
enter_stale(fs) ==
    /\ files' = fs
    /\ idx' = 1
    /\ pc' = "loop"
    /\ df' = NoDf
    /\ sheet_name' = ""
    /\ UNCHANGED << all_data, origin >>
    /\ tried' = [i \in 1..Len(fs) |-> << >>]
    /\ won' = [i \in 1..Len(fs) |-> 0]
    /\ failed' = {}
    /\ result' = EmptyFrame

\* the entry of the function with the list fs (lines 62-63)
enter(fs) ==
    /\ files' = fs
    /\ idx' = 1
    /\ pc' = "loop"
    /\ df' = NoDf
    /\ sheet_name' = ""
    /\ all_data' = << >>
    /\ origin' = << >>
    /\ tried' = [i \in 1..Len(fs) |-> << >>]
    /\ won' = [i \in 1..Len(fs) |-> 0]
    /\ failed' = {}
    /\ result' = EmptyFrame

\* the list without the files at the indexes of S
RECURSIVE without(_, _, _)
without(fs, S, i) ==
    IF i > Len(fs) THEN << >>
    ELSE (IF i \in S THEN << >> ELSE << fs[i] >>) \o without(fs, S, i + 1)

CallAgain ==
    /\ pc = "done"
    /\ run = "first"
    /\ ~raised
    /\ run' = "again"
    /\ first' = result
    /\ enter(files)
    /\ UNCHANGED << raised, now, app_vars >>

CallWithoutFailed ==
    /\ pc = "done"
    /\ run = "first"
    /\ ~raised
    /\ failed # {}
    /\ run' = "without"
    /\ first' = result
    /\ enter(without(files, failed, 1))
    /\ UNCHANGED << raised, now, app_vars >>

InitBatch == \E fs \in Batches : Start(fs)

NextCalls == Next \/ CallAgain \/ CallWithoutFailed

SpecCalls == InitBatch /\ [][NextCalls]_vars

(***************************************************************************)
(* app.py: a script run in which "Process Files" was pressed.  The files   *)
(* of the uploader are written to temporary files, parse_distributor_files *)
(* is called with their paths, the session state is updated and the        *)
(* temporary files are removed.                                            *)
(***************************************************************************)
UploadLimit == 5

\* an uploaded file: its original name and what it holds
Upload(name, sheets, columns, rows, readable) ==
    [ name |-> name, sheets |-> sheets, columns |-> columns, rows |-> rows,
      readable |-> readable ]

UploadSet ==
    { Upload("Acme Q1.xlsx", << "Sheet1" >>, ColsTitle, << HeaderRow, AcmeRow >>, TRUE),
      Upload("Sales from North.csv", << >>, ColsNoProd, << BobRow >>, TRUE),
      Upload("Q1 orders.csv", << >>, ColsHeader, << AcmeRow >>, FALSE) }

UploadLists ==
    UNION { [1..n -> UploadSet] : n \in 0..MaxUploads }
    \cup { [i \in 1..(UploadLimit + 1) |->
              Upload("Acme Q1.xlsx", << "Sheet1" >>, ColsTitle, << HeaderRow, AcmeRow >>, TRUE)] }

\* lines 60-68: the table, its quarters in sorted order and the last of them; a
\* table has one quarter, the one stamp gives all its rows
stored(processed_data) ==
    LET quarters == { processed_data.rows[k].Quarter : k \in 1..Len(processed_data.rows) }
    IN  [ processed_data |-> processed_data,
          quarters_available |-> quarters,
          current_quarter |-> CHOOSE q \in quarters : TRUE ]

\* the session of a browser that has not processed anything yet, and the one
\* left by a Process action of September 2024 on 'Sales from North.csv'
PriorTable ==
    combined_df(<< extract_basic([columns |-> ColsNoProd, rows |-> << BobRow >>], "tmpk3_b7.csv", "CSV") >>,
                9, 2024)
SessionStates == { NoSession, stored(PriorTable) }

InitApp ==
    /\ uploaded_files \in UploadLists
    /\ temp_file_paths = << >>
    /\ disk = {}
    /\ session_state \in SessionStates
    /\ app_pc = "rerun"
    /\ files = << >>
    /\ idx = 1
    /\ pc = "idle"
    /\ df = NoDf
    /\ sheet_name = ""
    /\ all_data = << >>
    /\ origin = << >>
    /\ tried = << >>
    /\ won = << >>
    /\ failed = {}
    /\ result = EmptyFrame
    /\ raised = FALSE
    /\ now = ClockStart
    /\ run = "first"
    /\ first = EmptyFrame

parse_vars == << files, idx, pc, df, sheet_name, all_data, origin, tried, won, failed,
                 result, raised, now, run, first >>

\* lines 39-44: the button was pressed; nothing is done without files, an error
\* is shown for more than 5 files
ProcessFiles ==
    /\ app_pc = "rerun"
    /\ app_pc' = IF uploaded_files = << >> \/ Len(uploaded_files) > UploadLimit
                 THEN "end" ELSE "saving"
    /\ temp_file_paths' = << >>
    /\ UNCHANGED << uploaded_files, disk, session_state, parse_vars >>

\* line 47
file_extension(name) == IF IsCsvT[name] THEN ".csv" ELSE ".xlsx"

\* lines 45-50: the next file of the uploader is written to a new temporary
\* file, which is created under a name no file has; the write may fail (disk
\* full), and the exception then leaves main
SaveTemp ==
    /\ app_pc = "saving"
    /\ Len(temp_file_paths) < Len(uploaded_files)
    /\ \E st \in TempStems : \E written \in BOOLEAN :
          LET file == uploaded_files[Len(temp_file_paths) + 1]
              tmp  == "/tmp/" \o st \o file_extension(file.name)
          IN  /\ tmp \notin disk
              /\ disk' = disk \cup { tmp }
              /\ IF written
                 THEN temp_file_paths' = Append(temp_file_paths, tmp) /\ app_pc' = app_pc
                 ELSE UNCHANGED temp_file_paths /\ app_pc' = "crashed"
    /\ UNCHANGED << uploaded_files, session_state, parse_vars >>

\* the files behind temp_file_paths
temp_files ==
    [ i \in 1..Len(temp_file_paths) |->
        File(temp_file_paths[i], uploaded_files[i].sheets, uploaded_files[i].columns,
             uploaded_files[i].rows, uploaded_files[i].readable, 0) ]

\* line 54: parse_distributor_files(temp_file_paths) is entered
CallParse ==
    /\ app_pc = "saving"
    /\ Len(temp_file_paths) = Len(uploaded_files)
    /\ enter(temp_files)
    /\ app_pc' = "parsing"
    /\ UNCHANGED << raised, now, run, first, uploaded_files, temp_file_paths, disk,
                    session_state >>

\* lines 75-80: os.unlink of every path of the list
unlink_all(paths) == disk \ { paths[i] : i \in 1..Len(paths) }

\* the error branches reset the session state
FinishProcess_resets_on_failure ==
    /\ app_pc = "parsing"
    /\ pc = "done"
    /\ session_state' = IF ~raised /\ result.rows # << >> THEN stored(result)
                        ELSE NoSession
    /\ disk' = unlink_all(temp_file_paths)
    /\ app_pc' = "end"
    /\ UNCHANGED << uploaded_files, temp_file_paths, parse_vars >>

\* lines 54-80: parse_distributor_files has returned or raised; the session
\* state is set for a table with rows, an error is shown otherwise; the
\* temporary files are removed
FinishProcess ==
    /\ app_pc = "parsing"
    /\ pc = "done"
    /\ session_state' = IF ~raised /\ result.rows # << >> THEN stored(result)
                        ELSE session_state
    /\ disk' = unlink_all(temp_file_paths)
    /\ app_pc' = "end"
    /\ UNCHANGED << uploaded_files, temp_file_paths, parse_vars >>

NextApp == ProcessFiles \/ SaveTemp \/ CallParse \/ FinishProcess \/ Next

SpecApp == InitApp /\ [][NextApp]_vars

(***************************************************************************)
(* parse_distributor_files on one sheet that names customers and marked    *)
(* products on different lines, under a header line                        *)
(***************************************************************************)
MarkerGrids == { << HeaderRow >> \o g : g \in UNION { [1..n -> MarkerRows] : n \in 0..MaxMarkerRows } }

InitMarker == \E g \in MarkerGrids : Start(<< File(XlsxPath, << "Sheet1" >>, ColsTitle, g, TRUE, 0) >>)

SpecMarker == InitMarker /\ [][Next]_vars

(***************************************************************************)
(* parse_distributor_files on one or two files, entered in any month of a  *)
(* year                                                                    *)
(***************************************************************************)
InitClock ==
    \E f \in BatchFiles : \E g \in BatchFiles : \E t \in ClockStart..(ClockStart + 11) :
        StartAt(<< f >>, t) \/ StartAt(<< f, g >>, t)

SpecClock == InitClock /\ [][Next]_vars

(***************************************************************************)
(* parse_distributor_files on one file of each name of FileNames           *)
(***************************************************************************)
InitNames == \E f \in NamedFiles : Start(<< f >>)

SpecNames == InitNames /\ [][Next]_vars

(***************************************************************************)
(* parse_distributor_files on one sheet whose line of column names comes   *)
(* after up to MaxLead other lines, or is the first line with up to        *)
(* MaxLead other lines between it and the lines of data                    *)
(***************************************************************************)
LeadRows == { BlankRow, << "Total", NaN, "12" >> }
TitleRows == { HeaderRow, SkuRow, ItemsRow, AcmeRow, BlankRow }
Lead(n, r) == [k \in 1..n |-> r]
HeaderGrids ==
    { Lead(n, r) \o << h >> \o t :
        n \in 0..MaxLead, r \in LeadRows, h \in TitleRows,
        t \in { << >>, << AcmeRow >>, << AcmeRow, HeaderRow >> } }

TopGrids ==
    { << h >> \o Lead(n, r) \o t :
        n \in 0..MaxLead, r \in LeadRows, h \in { HeaderRow, PartiesRow },
        t \in { << << "Acme Store", NaN, NaN >>, << NaN, "Gadget * Red", NaN >> >>, << PairRow >> } }

InitHeader == \E g \in HeaderGrids \cup TopGrids : Start(<< File(XlsxPath, << "Sheet1" >>, ColsTitle, g, TRUE, 0) >>)

SpecHeader == InitHeader /\ [][Next]_vars

(***************************************************************************)
(* parse_distributor_files on one CSV order export, which only the         *)
(* positional fallback reads                                               *)
(***************************************************************************)
OrderGrids == UNION { [1..n -> OrderRows] : n \in 0..MaxOrders }

InitOrders ==
    \E c \in { ColsOrders, ColsUnits } : \E g \in OrderGrids :
        Start(<< File(CsvPath, << >>, c, g, TRUE, 0) >>)

SpecOrders == InitOrders /\ [][Next]_vars

(***************************************************************************)
(* Properties                                                              *)
(***************************************************************************)
Done == pc = "done"
FileDf(i) == [columns |-> files[i].columns, rows |-> files[i].rows]
FileName(i) == BaseNameT[files[i].path]
FileSheet(i) == IF IsCsvT[files[i].path] THEN "CSV" ELSE files[i].sheets[1]
\* the file can be loaded into a DataFrame that is not empty
Loads(i) ==
    /\ files[i].readable
    /\ (IsCsvT[files[i].path] \/ Len(files[i].sheets) > 0)
    /\ Len(files[i].rows) > 0 /\ Len(files[i].columns) > 0
\* the table of all_data that came from file i, << >> when there is none
TableOf(i) ==
    LET es == { e \in 1..Len(origin) : origin[e] = i }
    IN  IF es = {} THEN << >> ELSE all_data[CHOOSE e \in es : TRUE]
NoDuplicatePair(rows) ==
    \A a, b \in 1..Len(rows) :
        (rows[a].Customer = rows[b].Customer /\ rows[a].Product = rows[b].Product) => a = b
\* the cells of the file's grid, stripped
CellsOf(i) ==
    UNION { { strip(files[i].rows[r][c]) :
                c \in { j \in 1..Len(files[i].columns) : notna(files[i].rows[r][j]) } } :
            r \in 1..Len(files[i].rows) }

\* C1: every row of a non-empty result has a Quantity that is an integer >= 1,
\* whatever strategy produced it and whatever the cells hold (0.5 included).
C1_QuantityAtLeastOne ==
    Done => \A k \in 1..Len(result.rows) :
                result.rows[k].Quantity \in Int /\ result.rows[k].Quantity >= 1

\* C2: every row of a non-empty result has a Customer Name that is none of
\* "Unknown", "Total", "Grand Total", "", also when a customer cell of the
\* input holds the text "Unknown".
C2_CustomerIsNoPlaceholder ==
    Done => \A k \in 1..Len(result.rows) :
                result.rows[k].Customer \notin { "Unknown", "Total", "Grand Total", "" }

\* C3: every row of a non-empty result has a Product that is none of
\* "Unknown Product", "Product", "Description", "Item", "Total", "", also when a
\* product cell of the input holds the text "Unknown Product".
C3_ProductIsNoPlaceholder ==
    Done => \A k \in 1..Len(result.rows) :
                result.rows[k].Product \notin
                    { "Unknown Product", "Product", "Description", "Item", "Total", "" }

\* C4: strategy precedence.  Once the loop is past a file in which a header row
\* is located and for which the header-driven strategy returns rows, the file
\* has exactly one table in all_data and it is the header-driven strategy's
\* table, whatever the marker-based, customer-by-SKU and positional strategies
\* would return for it; only the header-driven strategy was called.
HeaderWins(i) ==
    /\ Loads(i) /\ files[i].raises # 1
    /\ find_header_row(FileDf(i)) # NoneIdx
    /\ process_file_with_header(FileDf(i), find_header_row(FileDf(i)), FileName(i), FileSheet(i)) # << >>
C4_HeaderDrivenExclusive ==
    \A i \in 1..Len(files) :
        (i < idx /\ HeaderWins(i)) =>
            /\ Cardinality({ e \in 1..Len(origin) : origin[e] = i }) = 1
            /\ TableOf(i) = process_file_with_header(FileDf(i), find_header_row(FileDf(i)),
                                                     FileName(i), FileSheet(i))
            /\ tried[i] = << 1 >>
            /\ won[i] = 1
\* a file the header-driven strategy won although the marker-based strategy
\* returns other rows for it
C4_Witness ==
    /\ Done /\ Len(files) = 1 /\ HeaderWins(1)
    /\ extract_asterisk_products(FileDf(1), FileName(1), FileSheet(1)) # << >>
    /\ extract_asterisk_products(FileDf(1), FileName(1), FileSheet(1)) # TableOf(1)
    /\ Len(result.rows) = Len(TableOf(1))

\* C5: the strategies of a file are called in the order header-driven,
\* customer-by-SKU, marker-based, positional; none is called twice; none is
\* called after one returned rows; and the marker-based and the positional
\* strategy, which no condition guards, are each called once for a loaded file
\* unless an earlier strategy returned rows or raised.
C5_FixedOrderOnceEach ==
    \A i \in 1..Len(files) :
        /\ \A a, b \in 1..Len(tried[i]) : a < b => tried[i][a] < tried[i][b]
        /\ won[i] # 0 => (Len(tried[i]) > 0 /\ tried[i][Len(tried[i])] = won[i])
        /\ (i < idx /\ Loads(i) /\ i \notin failed) =>
               /\ (won[i] \notin {1, 2}) => (\E a \in 1..Len(tried[i]) : tried[i][a] = 3)
               /\ (won[i] \notin {1, 2, 3}) => (\E a \in 1..Len(tried[i]) : tried[i][a] = 4)
\* a file for which all four strategies were called, the last one returning rows
C5_Witness ==
    Done /\ \E i \in 1..Len(files) : tried[i] = << 1, 2, 3, 4 >> /\ won[i] = 4

\* the rows and columns of a frame without Month, Year and Quarter
unstamped(frame) ==
    [ columns |-> frame.columns \ {"Month", "Year", "Quarter"},
      rows    |-> [k \in 1..Len(frame.rows) |->
                     [ Customer |-> frame.rows[k].Customer, Product |-> frame.rows[k].Product,
                       Quantity |-> frame.rows[k].Quantity, SourceFile |-> frame.rows[k].SourceFile,
                       Distributor |-> frame.rows[k].Distributor, SheetName |-> frame.rows[k].SheetName,
                       City |-> frame.rows[k].City, State |-> frame.rows[k].State ]] ]

\* C6: failure isolation.  No exception reaches the caller, and the result of
\* a batch in which files failed (could not be read, or raised inside a
\* strategy) is, Month, Year and Quarter aside, the result of the batch with
\* those files left out of the list.
C6_FailureIsolation ==
    /\ ~raised
    /\ (Done /\ run = "without") => unstamped(result) = unstamped(first)
\* the second call has returned rows for a list that lost a file
C6_Witness ==
    /\ Done /\ run = "without" /\ Len(result.rows) > 0 /\ Len(files) = 2
    /\ \E k \in 1..Len(first.rows) : first.rows[k].SourceFile # first.rows[1].SourceFile

C8_BasicNoDuplicatePair ==
    (pc \in {"approach1", "approach2", "approach3", "approach4"}) =>
        NoDuplicatePair(extract_basic(df, file_name, sheet_name))
\* the positional strategy's table was kept, shorter than its rows list
C8_Witness ==
    /\ Done /\ Len(files) = 1 /\ won[1] = 4
    /\ Len(TableOf(1)) < Len(basic_rows(FileDf(1), FileName(1), FileSheet(1)))

\* C9 as stated: the table of every file, whichever strategy produced it, has
\* no two rows with the same (customer, product) pair.
C9_EveryTableNoDuplicatePair ==
    \A e \in 1..Len(all_data) : NoDuplicatePair(all_data[e])
\* C9 as amended: the table of a file has no two rows with the same (customer,
\* product) pair when the positional strategy produced it; the tables of the
\* header-driven, customer-by-SKU and marker-based strategies are kept as
\* extracted and may repeat a pair.
C9_PositionalTableNoDuplicatePair ==
    \A e \in 1..Len(all_data) : won[origin[e]] = 4 => NoDuplicatePair(all_data[e])
\* a positional table of a grid that repeats a row
C9_Witness ==
    /\ Len(all_data) = 1 /\ won[origin[1]] = 4 /\ Len(all_data[1]) = 2
    /\ \E a, b \in 1..Len(files[origin[1]].rows) :
          a < b /\ files[origin[1]].rows[a] = files[origin[1]].rows[b]

\* C10: placeholder exclusion.  The customer and the product of every row kept
\* are texts found in cells of the row's file: no row carries a value a
\* strategy fills in for a customer or product it could not resolve.
C10_NoDefaultCustomerOrProduct ==
    \A e \in 1..Len(all_data) : \A k \in 1..Len(all_data[e]) :
        /\ all_data[e][k].Customer \in CellsOf(origin[e])
        /\ all_data[e][k].Product \in CellsOf(origin[e])


\* the rows of the result that came from the file named n
RowsOf(n) == { k \in 1..Len(result.rows) : result.rows[k].SourceFile = n }

\* C11: the rows of the file "tmpAB12Foo Report from Acme.xlsx" carry the
\* distributor label "Acme".
C11_ReportFromAcmeIsAcme ==
    \A k \in RowsOf("tmpAB12Foo Report from Acme.xlsx") : result.rows[k].Distributor = "Acme"

\* C12: the rows of the file "tmpXYZreport.csv" carry a label made from the stem
\* "report", not from the extension "csv".
C12_LabelFromStemReport ==
    \A k \in RowsOf("tmpXYZreport.csv") :
        /\ Contains(Lower(result.rows[k].Distributor), "report")
        /\ Lower(result.rows[k].Distributor) # "csv"

\* nothing but the extension is left of the name once the temporary prefix is
\* stripped
OnlyExtensionLeft(n) ==
    LET rest == StripTmpPrefix(basename(n)) IN rest = "" \/ Ch(rest, 1) = "."
\* the stem of the name, cleaned, is shorter than 3 characters
ShortStem(n) ==
    LET rest == StripTmpPrefix(basename(n))
        stem == IF OnlyExtensionLeft(n) THEN "" ELSE splitext_root(rest)
    IN  Len(Strip(KeepLabelChars(stem))) < 3
IsPlaceholderLabel(label) == StartsWith(label, "Distributor-") \/ label = "Unknown-Distributor"

\* C13: the rows of a file whose name has no stem after the temporary prefix
\* (such as "tmp123.xlsx"), or whose cleaned stem is shorter than 3 characters,
\* carry a generated placeholder label ("Distributor-..." or
\* "Unknown-Distributor"), never the bare extension text.
C13_NoStemGivesPlaceholder ==
    \A k \in 1..Len(result.rows) :
        (OnlyExtensionLeft(result.rows[k].SourceFile) \/ ShortStem(result.rows[k].SourceFile))
            => IsPlaceholderLabel(result.rows[k].Distributor)


\* the retailer CSV: the header line becomes the column labels, one data line
RetailerCsv == File(CsvPath, << >>, ColsRetailer, << RetailerRow >>, TRUE, 0)

\* C15: the CSV with the header Retailer Name, Ship City, Ship State,
\* SKU Description, Qty and the one data line Acme Store, Springfield, IL,
\* Widget Pro * Blue, 4 yields exactly one row: Acme Store, Widget Pro * Blue,
\* quantity 4, city Springfield, state IL.
C15_RetailerCsvOneRow ==
    (Done /\ files = << RetailerCsv >>) =>
        /\ Len(result.rows) = 1
        /\ result.rows[1].Customer = "Acme Store"
        /\ result.rows[1].Product = "Widget Pro * Blue"
        /\ result.rows[1].Quantity = 4
        /\ result.rows[1].City = "Springfield"
        /\ result.rows[1].State = "IL"
\* the retailer CSV has been parsed, by the positional fallback
C15_Witness ==
    Done /\ files = << RetailerCsv >> /\ tried[1] = << 3, 4 >> /\ won[1] = 4 /\ ~raised


\* customer_by_row has the key i
Recorded(d, i) == i >= 1 /\ i <= Len(d.rows) /\ customer_by_row(d, i) # NaN
\* the customer the claim gives a marked cell of row i: the one recorded for row
\* i, else the one recorded at the nearest row at distance 1..3, the row above
\* first; NaN when no row of [i-3, i+3] has one
NearestCustomer(d, i) ==
    LET ds == { o \in 1..3 : Recorded(d, i - o) \/ Recorded(d, i + o) }
        o  == First(ds)
    IN  IF Recorded(d, i) THEN customer_by_row(d, i)
        ELSE IF ds = {} THEN NaN
        ELSE IF Recorded(d, i - o) THEN customer_by_row(d, i - o)
        ELSE customer_by_row(d, i + o)
\* the (customer, product) pairs the claim gives the marked cells of the grid, in
\* row-major order
MarkedPairs(d) ==
    Flatten([i \in 1..Len(d.rows) |->
        Flatten([j \in 1..Len(d.columns) |->
            IF notna(d.rows[i][j]) /\ In("*", strip(d.rows[i][j])) /\ len(strip(d.rows[i][j])) > 5
               /\ NearestCustomer(d, i) # NaN
            THEN << << NearestCustomer(d, i), strip(d.rows[i][j]) >> >>
            ELSE << >>])])
PairsOf(rows) == [k \in 1..Len(rows) |-> << rows[k].Customer, rows[k].Product >>]

\* C16: the marker-based strategy emits, for every cell with an asterisk and
\* more than 5 characters at row i, one row carrying the customer recorded for
\* row i, else the customer recorded at the nearest row at distance 1..3 (the
\* row above before the row below); and no row when no row of [i-3, i+3] has a
\* recorded customer.
C16_NearestCustomerWithinThree ==
    (pc = "approach3") =>
        PairsOf(extract_asterisk_products(df, file_name, sheet_name)) = MarkedPairs(df)
\* the same, for the grids in which no recorded customer is the text "Unknown"
C16_HoldsWithoutUnknown ==
    (pc = "approach3" /\ \A i \in 1..Len(df.rows) : customer_by_row(df, i) # "Unknown") =>
        PairsOf(extract_asterisk_products(df, file_name, sheet_name)) = MarkedPairs(df)


\* C17: when no file of the list yields a row (the list is empty, or every file
\* fails to load, raises, or gets an empty table from every strategy), the call
\* returns the empty table and raises nothing.
C17_NothingExtractedEmptyTable ==
    (Done /\ \A i \in 1..Len(files) : won[i] = 0) =>
        /\ ~raised
        /\ result.rows = << >>
        /\ result.columns = {}
\* a batch of two files has returned: the first could not be read, a strategy
\* raised for the second
C17_Witness ==
    /\ Done /\ Len(files) = 2 /\ failed = {1, 2}
    /\ tried[1] = << >> /\ tried[2] # << >>
    /\ result = EmptyFrame


\* C18: all rows of a result carry the same Month, Year and Quarter; Month is
\* in 1..12 and Quarter is the text "Q<n> <Year>" with n = floor((Month-1)/3)+1,
\* one of 1, 2, 3, 4.
C18_OneStampQuarterOfMonth ==
    Done => \A k \in 1..Len(result.rows) :
        LET r == result.rows[k]
            n == ((r.Month - 1) \div 3) + 1
        IN  /\ r.Month = result.rows[1].Month
            /\ r.Year = result.rows[1].Year
            /\ r.Quarter = result.rows[1].Quarter
            /\ r.Month \in 1..12
            /\ n \in 1..4
            /\ Len(r.Quarter) = 7
            /\ SubSeq(r.Quarter, 1, 1) = "Q"
            /\ SubSeq(r.Quarter, 2, 2) = Ch("1234", n)
            /\ SubSeq(r.Quarter, 3, 3) = " "
            /\ NatVal(SubSeq(r.Quarter, 4, 7)) = r.Year
\* a result of two rows stamped in the last month of a quarter
C18_Witness ==
    /\ Done /\ Len(result.rows) >= 2
    /\ result.rows[1].Month = 9 /\ result.rows[2].Quarter = "Q3 2025"


\* the rows the strategies returned for the files of the batch
ExtractedRows == Flatten(all_data)

C14_LabelFromOriginalName ==
    (app_pc = "end") =>
        \A k \in 1..Len(result.rows) : \A i \in 1..Len(temp_file_paths) :
            (result.rows[k].SourceFile = BaseNameT[temp_file_paths[i]]) =>
                result.rows[k].Distributor = DistributorT[uploaded_files[i].name]

\* C20: when a Process action on at most 5 files is over, whether it ended or
\* an exception left it, no temporary file it created exists any more.
C20_NoTempFileLeft ==
    (app_pc \in { "end", "crashed" } /\ Len(uploaded_files) <= UploadLimit) => disk = {}
\* the same, for the actions in which every temporary file was written
C20_HoldsWhenAllWritten ==
    (app_pc = "end" /\ Len(uploaded_files) <= UploadLimit) => disk = {}


\* the words of a line as C21 reads them: the non-blank cells, lower-cased and
\* joined with spaces
LineWords(row) ==
    LET cells == NonBlank(row)
    IN  { p \in Needles : Contains(Join([k \in 1..Len(cells) |-> Lower(cells[k])]), p) }
LineWordsT == [r \in AllRows |-> LineWords(r)]
NamesColumns(row) ==
    LET w == LineWordsT[row] IN
    \/ {"customer", "name"} \subseteq w
    \/ {"retailer", "name"} \subseteq w
    \/ ("product" \in w /\ w \cap {"name", "description", "sku", "item"} # {})

\* C21: find_header_row returns the smallest index i < min(20, number of rows)
\* of a line whose lower-cased, space-joined text names the columns, none when
\* there is no such line, and never an index >= 20 (indexes here are Python's
\* plus one, 0 is none).
C21_FirstHeaderWithinTwenty ==
    (pc = "approach1") =>
        LET r == find_header_row(df)
            Q == { i \in 1..Len(df.rows) : i <= 20 /\ NamesColumns(df.rows[i]) }
        IN  /\ r <= 20
            /\ (Q = {}) => r = 0
            /\ (Q # {}) => (r \in Q /\ \A i \in Q : r <= i)
\* a sheet whose first line of column names is its 21st: the header-driven
\* strategy was not called
C21_Witness ==
    /\ pc = "approach2"
    /\ Len(df.rows) > 20
    /\ NamesColumns(df.rows[21])
    /\ \A i \in 1..20 : ~NamesColumns(df.rows[i])
    /\ tried[idx] = << >>

\* some cell of column j in one of the rows ks names customers
NamedIn(d, j, ks) ==
    \E k \in ks : notna(d.rows[k][j]) /\ (In("customer", lower(d.rows[k][j])) \/ In("retailer", lower(d.rows[k][j])))
\* the customer recorded for row i is the cell of column j
RecordedFrom(d, i, j) == customer_by_row(d, i) = strip(d.rows[i][j])
\* the first rows of the sheet, at most 5 of them and all above row i
TopRows(i) == 1..Min(5, i - 1)
\* the up to 5 rows directly above row i
RowsAbove(i) == Max(1, i - 5)..(i - 1)

\* C22 as stated: in the marker-based strategy a cell at row i, column j that
\* passes the filters is recorded as the customer of row i exactly when some
\* cell of column j in the up to 5 rows directly above row i (i-5..i-1)
\* contains "customer" or "retailer".
C22_NamedInRowsDirectlyAbove ==
    (pc = "approach3") =>
        \A i \in 1..Len(df.rows) : \A j \in 1..Len(df.columns) :
            may_be_customer(df.rows[i][j]) =>
                (RecordedFrom(df, i, j) <=> NamedIn(df, j, RowsAbove(i)))
\* C22: in the marker-based strategy a cell at row i, column j that passes the
\* filters is recorded as the customer of row i exactly when some cell of
\* column j in one of the first min(5, i) rows of the sheet (rows
\* 0..min(5, i)-1) contains "customer" or "retailer", and no cell of row i in
\* an earlier column is such a cell.
C22_NamedInFirstRowsOfSheet ==
    (pc = "approach3") =>
        \A i \in 1..Len(df.rows) : \A j \in 1..Len(df.columns) :
            may_be_customer(df.rows[i][j]) =>
                (RecordedFrom(df, i, j) <=>
                    /\ NamedIn(df, j, TopRows(i))
                    /\ \A c \in 1..(j - 1) :
                          ~(may_be_customer(df.rows[i][c]) /\ NamedIn(df, c, TopRows(i))))
\* a customer recorded more than 5 rows under the line that names its column,
\* and the marked product under it was emitted with it
C22_Witness ==
    /\ pc = "loop"
    /\ won = << 3 >>
    /\ \E i \in 7..Len(files[1].rows) :
          /\ RecordedFrom(FileDf(1), i, 1)
          /\ ~NamedIn(FileDf(1), 1, RowsAbove(i))
          /\ \E k \in 1..Len(all_data[1]) : all_data[1][k].Customer = strip(files[1].rows[i][1])

\* the positional fallback produced the table of the one file of the list
BasicTable == Done /\ Len(files) = 1 /\ won = << 4 >>
\* the quantity C23 reads in an Order Total cell
OrderTotalOf(cell) ==
    IF ~notna(cell) \/ OrderTotalT[cell] = NoNum THEN 1 ELSE Max(1, IntOf(OrderTotalT[cell]))

\* C23: in the positional fallback, when the grid has an 'Order Total' column,
\* the quantity of every emitted row comes from that column only: max(1,
\* integer part of the cell without '$' and ','), and 1 when the cell is blank
\* or cannot be parsed; no other column gives the quantity.
C23_QuantityFromOrderTotalOnly ==
    (BasicTable /\ col_of(FileDf(1), "Order Total") # 0) =>
        \A k \in 1..Len(result.rows) :
            \E r \in 1..Len(files[1].rows) :
                /\ result.rows[k].Customer = strip(files[1].rows[r][1])
                /\ result.rows[k].Quantity = OrderTotalOf(files[1].rows[r][col_of(FileDf(1), "Order Total")])
\* the same, for the grids without a blank Order Total cell
C23_HoldsWhenCellNotBlank ==
    (/\ BasicTable /\ col_of(FileDf(1), "Order Total") # 0
     /\ \A r \in 1..Len(files[1].rows) : notna(files[1].rows[r][col_of(FileDf(1), "Order Total")])) =>
        \A k \in 1..Len(result.rows) :
            \E r \in 1..Len(files[1].rows) :
                /\ result.rows[k].Customer = strip(files[1].rows[r][1])
                /\ result.rows[k].Quantity = OrderTotalOf(files[1].rows[r][col_of(FileDf(1), "Order Total")])

\* the number in a cell, in tenths, NoNum when the cell is blank or no number
ValueOf(cell) == IF notna(cell) THEN FloatT[strip(cell)] ELSE NoNum
\* the first column in column order, other than the customer and product
\* columns, whose cell of the row is a number strictly between 0 and 1000
FirstCount(d, row) ==
    First({ c \in 1..Len(d.columns) :
              /\ c # basic_col(d, "customer")
              /\ c # basic_product_col(d, basic_col(d, "customer"))
              /\ ValueOf(row[c]) # NoNum /\ 0 < ValueOf(row[c]) /\ ValueOf(row[c]) < 10 * 1000 })
\* the frame with its last two columns exchanged
Exchanged(d) ==
    LET n == Len(d.columns)
        x(row) == [c \in 1..n |-> IF c = n - 1 THEN row[n] ELSE IF c = n THEN row[n - 1] ELSE row[c]]
    IN  [columns |-> x(d.columns), rows |-> [r \in 1..Len(d.rows) |-> x(d.rows[r])]]

ChosenProductCol(d) == basic_product_col(d, basic_col(d, "customer"))
\* the columns other than the chosen product column whose cell of the row has
\* an asterisk and more than 5 characters
MarkedElsewhere(d, row) ==
    { c \in 1..Len(d.columns) :
        /\ c # ChosenProductCol(d)
        /\ notna(row[c]) /\ In("*", strip(row[c])) /\ len(strip(row[c])) > 5 }

\* C25: in the positional fallback, a row that holds, in a column other than
\* the chosen product column, a cell with an asterisk and more than 5
\* characters is emitted with that cell's text as its Product, also when no
\* product column was found or the row's product cell is blank.
C25_MarkedCellIsTheProduct ==
    BasicTable =>
        \A r \in 1..Len(files[1].rows) :
            LET row == files[1].rows[r] IN
            MarkedElsewhere(FileDf(1), row) # {} =>
                \E k \in 1..Len(result.rows) :
                    /\ result.rows[k].Customer = strip(row[1])
                    /\ result.rows[k].Product = strip(row[First(MarkedElsewhere(FileDf(1), row))])
\* the same, for the rows whose cell in the chosen product column is not blank
C25_HoldsWhenProductCellNotBlank ==
    BasicTable =>
        \A r \in 1..Len(files[1].rows) :
            LET row == files[1].rows[r] IN
            (/\ MarkedElsewhere(FileDf(1), row) # {}
             /\ ChosenProductCol(FileDf(1)) # 0
             /\ notna(row[ChosenProductCol(FileDf(1))])) =>
                \E k \in 1..Len(result.rows) :
                    /\ result.rows[k].Customer = strip(row[1])
                    /\ result.rows[k].Product = strip(row[First(MarkedElsewhere(FileDf(1), row))])

\* the number of rows of the tables of the files 1..n
RECURSIVE RowCount(_)
RowCount(n) == IF n = 0 THEN 0 ELSE RowCount(n - 1) + Len(TableOf(n))

\* C26: the combined result is the in-order concatenation of the per-file
\* tables: the rows are grouped by file in the order of the path list, each
\* file's rows in the order its strategy emitted them, the row count is the sum
\* of the per-file counts, and a file without rows contributes nothing.
C26_ConcatenationInListOrder ==
    (Done /\ run = "first") =>
        /\ unstamped(result).rows = Flatten([i \in 1..Len(files) |-> TableOf(i)])
        /\ Len(result.rows) = RowCount(Len(files))
\* three files: the second gave no table, the first and the third gave rows of
\* different customers, and the result has the rows of the first before those
\* of the third
C26_Witness ==
    /\ Done /\ run = "first" /\ Len(files) = 3
    /\ won[1] # 0 /\ won[2] = 0 /\ won[3] # 0
    /\ TableOf(1)[1].Customer # TableOf(3)[1].Customer
    /\ Len(result.rows) = Len(TableOf(1)) + Len(TableOf(3))
    /\ result.rows[1].Customer = TableOf(1)[1].Customer
    /\ result.rows[Len(result.rows)].Customer = TableOf(3)[Len(TableOf(3))].Customer

\* the header row of file i gives some column the role
HeaderMaps(i, role) ==
    LET headers == files[i].rows[find_header_row(FileDf(i))]
    IN  \E c \in 1..Len(headers) : header_role(headers[c]) = role
\* the header-driven strategy was called on file i and did not raise
HeaderDrivenRan(i) == tried[i] # << >> /\ tried[i][1] = 1 /\ files[i].raises # 1

\* C27: the header-driven strategy returns rows only if the header row maps
\* both a customer column and a product column; when it maps exactly one of
\* the two, every data row is skipped, the strategy returns empty and the
\* cascade goes on to the next strategy.
C27_RowsOnlyWithBothColumns ==
    \A i \in 1..Len(files) :
        HeaderDrivenRan(i) =>
            /\ (won[i] = 1) => (HeaderMaps(i, "customer") /\ HeaderMaps(i, "product"))
            /\ (HeaderMaps(i, "customer") # HeaderMaps(i, "product")) =>
                   /\ won[i] # 1
                   /\ process_file_with_header(FileDf(i), find_header_row(FileDf(i)), FileName(i), FileSheet(i)) = << >>
                   /\ (idx > i) => (Len(tried[i]) > 1 /\ tried[i][2] \in { 2, 3 })
\* a sheet whose line of column names has products and no customers, with a
\* data line under it: the marker-based strategy was called after the
\* header-driven one
C27_Witness ==
    /\ idx > 1 /\ HeaderDrivenRan(1)
    /\ HeaderMaps(1, "product") /\ ~HeaderMaps(1, "customer")
    /\ Len(files[1].rows) > find_header_row(FileDf(1))
    /\ tried[1][2] = 3

\* the clock showed the month and year stamped on the row at instant t, and the
\* row's Quarter is the quarter of that instant
StampedAt(r, t) ==
    /\ r.Month = month_of(t)
    /\ r.Year = year_of(t)
    /\ r.Quarter = "Q" \o ToStr(((month_of(t) - 1) \div 3) + 1) \o " " \o ToStr(year_of(t))

\* C28: the stamped Month and Year belong to one instant of the wall clock: in
\* every call that was entered at instant ClockStart and returned rows, also
\* one during which December passes to January, there is an instant between
\* the entry and the return at which the clock showed the stamped (Month,
\* Year), and Quarter is the quarter of that instant.
C28_StampOfOneInstant ==
    (Done /\ run = "first" /\ result.rows # << >>) =>
        \E t \in ClockStart..now : \A k \in 1..Len(result.rows) : StampedAt(result.rows[k], t)
\* the same, for the calls during which the year did not change
C28_HoldsWithinOneYear ==
    (Done /\ run = "first" /\ result.rows # << >> /\ year_of(now) = year_of(ClockStart)) =>
        \E t \in ClockStart..now : \A k \in 1..Len(result.rows) : StampedAt(result.rows[k], t)

\* C29: a Process action that ends in failure (more than 5 files, an empty
\* result, an exception) leaves processed_data, quarters_available and
\* current_quarter as they were; they change only in a step that stores a
\* table with rows returned by parse_distributor_files, and current_quarter is
\* then one of quarters_available.
C29_SessionChangesOnlyOnSuccess ==
    [][ (session_state' # session_state) =>
            /\ app_pc = "parsing" /\ pc = "done" /\ ~raised
            /\ result.rows # << >>
            /\ session_state'.processed_data = result
            /\ session_state'.current_quarter \in session_state'.quarters_available
      ]_vars
\* a Process action on files that gave no row has ended in a session that held
\* the table of an earlier one, and the session still holds it
C29_Witness ==
    /\ app_pc = "end"
    /\ uploaded_files # << >> /\ Len(uploaded_files) <= UploadLimit
    /\ pc = "done" /\ result.rows = << >>
    /\ session_state = stored(PriorTable)

\* a label of at least 3 characters, all of them letters, digits, spaces,
\* hyphens or underscores, the first and the last no space
WellFormedLabel(label) ==
    /\ Len(label) >= 3
    /\ \A i \in 1..Len(label) : IsAlnumCh(Ch(label, i)) \/ Ch(label, i) \in { " ", "-", "_" }
    /\ Ch(label, 1) # " "
    /\ Ch(label, Len(label)) # " "

\* C30: for every file name, get_distributor_name returns a label of at least
\* 3 characters made only of letters, digits, space, hyphen and underscore,
\* without a leading or trailing space; it is never empty.
C30_LabelIsWellFormed ==
    /\ \A i \in 1..Len(files) : WellFormedLabel(get_distributor_name(files[i].path))
    /\ \A k \in 1..Len(result.rows) : WellFormedLabel(result.rows[k].Distributor)
\* rows were returned for a file whose name has no label character in its stem
C30_Witness ==
    /\ Done /\ files[1].path = "!!.csv"
    /\ Len(result.rows) > 0
    /\ result.rows[1].Distributor = "Distributor-Unknown"
====
